---- MODULE Spec2Model ----
(***************************************************************************)
(* Ragged Memory (ram): storage orchestration and scope resolution.        *)
(*                                                                         *)
(* The state is the filesystem the tool reads and writes (directories,     *)
(* configuration files, the tables of the vector engine below each store   *)
(* directory) and a record of the last operation with its inputs and its   *)
(* outcome. Paths are sequences of names, <<>> being the filesystem root.  *)
(***************************************************************************)
EXTENDS Integers, Sequences, FiniteSets, Bags, TLC

VARIABLES
    dirs,      \* set of paths that exist as directories
    files,     \* function: path of an existing configuration file -> content
    tables,    \* function: store path that holds the table "memories" -> rows
    last,      \* the last operation: [op, args, result, calls]
    appended,  \* history: store path -> sequence of rows handed to a successful add_chunks
    indexed,   \* history: set of <<store path, file_hash, rows stored>> of add commands that completed
    confirmed, \* history: TRUE once a user answered yes to "Re-index?"
    procs      \* the running `ram add` processes: position and locals of each

vars == <<dirs, files, tables, last, appended, indexed, confirmed, procs>>

----------------------------------------------------------------------------
(* Outcomes of a call: a returned value or a raised exception.             *)

Ok(v) == [raise |-> "none", value |-> v]
Raise(e) == [raise |-> e, value |-> <<>>]

(* Python's None for an optional path. *)
NoPath == <<"None">>

----------------------------------------------------------------------------
(* Paths.                                                                  *)

Root == <<>>
Home == <<"home">>
Proj == <<"home", "proj">>
Src == <<"home", "proj", "src">>
Tmp == <<"tmp">>

(* The directories that exist in every state; the tool never removes one. *)
Skeleton == {Root, Home, Proj, Src, Tmp}

Join(p, name) == Append(p, name)

(* pathlib: the parent of the root is the root itself. *)
Parent(p) == IF Len(p) = 0 THEN p ELSE SubSeq(p, 1, Len(p) - 1)

PathExists(fs, p) == p \in fs.dirs \/ p \in DOMAIN fs.files

FS == [dirs |-> dirs, files |-> files, tables |-> tables]

(* Path(s).expanduser() for the path strings a configuration can hold. *)
GlobalDirStrings == {"~/.ragged_memory", "/tmp/ram_global"}

ExpandUser(s) ==
    CASE s = "~/.ragged_memory" -> Join(Home, ".ragged_memory")
      [] s = "/tmp/ram_global" -> Join(Tmp, "ram_global")

----------------------------------------------------------------------------
(* StorageScope.                                                           *)

StorageScope_LOCAL == "local"
StorageScope_GLOBAL == "global"

(* StorageScope(value): the enum lookup raises ValueError on other values. *)
StorageScope(v) == IF v \in {StorageScope_LOCAL, StorageScope_GLOBAL} THEN Ok(v) ELSE Raise("ValueError")

----------------------------------------------------------------------------
(* Config.                                                                 *)

DefaultVectorDimensions == 384

defaults ==
    [storage |-> [embedding_model |-> "sentence-transformers/all-MiniLM-L6-v2",
                  vector_dimensions |-> DefaultVectorDimensions],
     scope |-> [default_scope |-> "local", auto_init_local |-> TRUE],
     paths |-> [global_dir |-> "~/.ragged_memory", local_dir |-> ".ragged_memory"]]

DefaultConfigPath == Join(Join(Home, ".ragged_memory"), "config.toml")

(* dict.update: the keys of l replace or extend those of d. *)
DictUpdate_DefaultsWin(d, l) ==
    [k \in DOMAIN d \cup DOMAIN l |-> IF k \in DOMAIN d THEN d[k] ELSE l[k]]

DictUpdate(d, l) ==
    [k \in DOMAIN d \cup DOMAIN l |-> IF k \in DOMAIN l THEN l[k] ELSE d[k]]

(* Config.load(config_path) on the filesystem fs. A file is [malformed, toml]:
   tomllib raises TOMLDecodeError, a ValueError, on a malformed file. *)
Config_load(fs, config_path) ==
    LET path == IF config_path = NoPath THEN DefaultConfigPath ELSE config_path
        present == PathExists(fs, path)
        loaded == fs.files[path].toml
        merged == [section \in DOMAIN defaults |->
                     IF present /\ section \in DOMAIN loaded
                     THEN DictUpdate(defaults[section], loaded[section])
                     ELSE defaults[section]]
        scope == StorageScope(merged["scope"]["default_scope"])
    IN  IF present /\ fs.files[path].malformed THEN Raise("ValueError")
        ELSE IF scope.raise # "none" THEN scope
        ELSE Ok([embedding_model |-> merged["storage"]["embedding_model"],
                 vector_dimensions |-> merged["storage"]["vector_dimensions"],
                 default_scope |-> scope.value,
                 auto_init_local |-> merged["scope"]["auto_init_local"],
                 global_dir |-> ExpandUser(merged["paths"]["global_dir"]),
                 local_dir |-> merged["paths"]["local_dir"]])

(* Config.get_global_dir: expanduser of an already expanded path. *)
get_global_dir(config) == config.global_dir

----------------------------------------------------------------------------
(* The configuration files of the model.                                   *)

EmbeddingModels == {"sentence-transformers/all-MiniLM-L6-v2", "other-model"}
VectorDimensions == {DefaultVectorDimensions, 2 * DefaultVectorDimensions}
ScopeStrings == {"local", "global", "bogus"}
LocalDirStrings == {".ragged_memory", ".ram"}

StorageSections ==
    {<<>>}
    \cup {[embedding_model |-> m] : m \in EmbeddingModels}
    \cup {[vector_dimensions |-> d] : d \in VectorDimensions}
    \cup {[embedding_model |-> m, vector_dimensions |-> d] :
            m \in EmbeddingModels, d \in VectorDimensions}

ScopeSections ==
    {<<>>}
    \cup {[default_scope |-> s] : s \in ScopeStrings}
    \cup {[auto_init_local |-> b] : b \in BOOLEAN}
    \cup {[default_scope |-> s, auto_init_local |-> b] : s \in ScopeStrings, b \in BOOLEAN}

PathsSections ==
    {<<>>}
    \cup {[global_dir |-> g] : g \in GlobalDirStrings}
    \cup {[local_dir |-> l] : l \in LocalDirStrings}
    \cup {[global_dir |-> g, local_dir |-> l] : g \in GlobalDirStrings, l \in LocalDirStrings}

TomlDocs ==
    {<<>>}
    \cup {[storage |-> a] : a \in StorageSections}
    \cup {[scope |-> b] : b \in ScopeSections}
    \cup {[paths |-> c] : c \in PathsSections}
    \cup {[storage |-> a, scope |-> b] : a \in StorageSections, b \in ScopeSections}
    \cup {[storage |-> a, paths |-> c] : a \in StorageSections, c \in PathsSections}
    \cup {[scope |-> b, paths |-> c] : b \in ScopeSections, c \in PathsSections}
    \cup {[storage |-> a, scope |-> b, paths |-> c] :
            a \in StorageSections, b \in ScopeSections, c \in PathsSections}

ConfigFiles ==
    {[malformed |-> FALSE, toml |-> d] : d \in TomlDocs}
    \cup {[malformed |-> TRUE, toml |-> <<>>]}

(* An explicit config_path a caller may hand to Config.load. *)
AltConfigPath == Join(Tmp, "alt.toml")
ConfigPaths == {DefaultConfigPath, AltConfigPath}

NoOp == [op |-> "none", args |-> <<>>, result |-> <<>>, calls |-> <<>>]

----------------------------------------------------------------------------
(* Specification of Config.load alone: any configuration file, at the
   default place or at an explicit one, or none. The call reads the
   filesystem and changes nothing, so each behaviour applies it once.      *)

InitConfig ==
    /\ \/ /\ files = <<>>
          /\ dirs = Skeleton
       \/ \E p \in ConfigPaths, c \in ConfigFiles :
            /\ files = (p :> c)
            /\ dirs = Skeleton \cup {Parent(p)}
    /\ tables = <<>>
    /\ last = NoOp
    /\ appended = <<>>
    /\ indexed = {}
    /\ confirmed = FALSE
    /\ procs = <<>>

ConfigLoad ==
    \E config_path \in ConfigPaths \cup {NoPath} :
        /\ last = NoOp
        /\ last' = [op |-> "Config.load",
                    args |-> [config_path |-> config_path],
                    result |-> Config_load(FS, config_path),
                    calls |-> <<>>]
        /\ UNCHANGED <<dirs, files, tables, appended, indexed, confirmed, procs>>

NextConfig == ConfigLoad

SpecConfig == InitConfig /\ [][NextConfig]_vars

----------------------------------------------------------------------------
(* C9: Config.load merges per key. With no file the result is the built-in
   defaults (all-MiniLM-L6-v2, 384, LOCAL, auto_init_local true); with a
   file, each recognized key present in the file has the file's value and
   each recognized key not present has its default, whatever else the same
   section overrides. A file whose default_scope is not a scope, or that
   does not parse, makes the load fail.                                    *)

FileValue(doc, section, key, dflt) ==
    IF section \in DOMAIN doc /\ key \in DOMAIN doc[section]
    THEN doc[section][key]
    ELSE dflt

C9_ReadPath == IF last.args.config_path = NoPath THEN DefaultConfigPath
               ELSE last.args.config_path

C9_Doc == IF C9_ReadPath \in DOMAIN files THEN files[C9_ReadPath].toml ELSE <<>>

C9_Fails ==
    /\ C9_ReadPath \in DOMAIN files
    /\ \/ files[C9_ReadPath].malformed
       \/ FileValue(C9_Doc, "scope", "default_scope", "local") \notin {"local", "global"}

C9_ConfigLoadMergesPerKey ==
    last.op = "Config.load" =>
        /\ (last.result.raise # "none") <=> C9_Fails
        /\ last.result.raise = "none" =>
            LET c == last.result.value IN
            /\ c.embedding_model = FileValue(C9_Doc, "storage", "embedding_model",
                                             "sentence-transformers/all-MiniLM-L6-v2")
            /\ c.vector_dimensions = FileValue(C9_Doc, "storage", "vector_dimensions", 384)
            /\ c.default_scope = FileValue(C9_Doc, "scope", "default_scope", "local")
            /\ c.auto_init_local = FileValue(C9_Doc, "scope", "auto_init_local", TRUE)
            /\ c.global_dir = ExpandUser(FileValue(C9_Doc, "paths", "global_dir",
                                                   "~/.ragged_memory"))
            /\ c.local_dir = FileValue(C9_Doc, "paths", "local_dir", ".ragged_memory")
        /\ (C9_ReadPath \notin DOMAIN files) =>
            /\ last.result.raise = "none"
            /\ last.result.value.embedding_model = "sentence-transformers/all-MiniLM-L6-v2"
            /\ last.result.value.vector_dimensions = 384
            /\ last.result.value.default_scope = StorageScope_LOCAL
            /\ last.result.value.auto_init_local = TRUE

(* A file that overrides one key of a section and leaves the other: the
   overridden key has the file's value, the other its default.             *)
C9_Witness ==
    /\ last.op = "Config.load"
    /\ last.result.raise = "none"
    /\ DOMAIN C9_Doc = {"storage", "scope"}
    /\ DOMAIN C9_Doc["storage"] = {"embedding_model"}
    /\ C9_Doc["storage"]["embedding_model"] = "other-model"
    /\ last.result.value.embedding_model = "other-model"
    /\ last.result.value.vector_dimensions = 384
    /\ DOMAIN C9_Doc["scope"] = {"default_scope"}
    /\ last.result.value.default_scope = StorageScope_GLOBAL
    /\ last.result.value.auto_init_local = TRUE

----------------------------------------------------------------------------
(* ProjectContext.                                                         *)

(* Path.absolute(): a relative path, written <<".", ...>>, is joined to the
   working directory; an absolute one is left as it is.                    *)
Absolute(cwd, p) ==
    IF Len(p) > 0 /\ p[1] = "." THEN cwd \o Tail(p) ELSE p

(* The while loop of _detect_project_root, from the directory current. *)
RECURSIVE detect_walk_SkipsGit(_, _)
detect_walk_SkipsGit(fs, current) ==
    IF current = Parent(current) THEN NoPath
    ELSE IF PathExists(fs, Join(current, ".ragged_memory")) THEN current
    ELSE detect_walk_SkipsGit(fs, Parent(current))

RECURSIVE detect_walk(_, _)
detect_walk(fs, current) ==
    IF current = Parent(current) THEN NoPath
    ELSE IF PathExists(fs, Join(current, ".ragged_memory")) THEN current
    ELSE IF PathExists(fs, Join(current, ".git")) THEN current
    ELSE detect_walk(fs, Parent(current))

detect_project_root(fs, cwd, start_dir) == detect_walk(fs, Absolute(cwd, start_dir))

(* ProjectContext(start_dir); start_dir None means Path.cwd(). *)
ProjectContext(fs, cwd, start_dir) ==
    LET start == IF start_dir = NoPath THEN cwd ELSE start_dir
        project_root == detect_project_root(fs, cwd, start)
    IN  [project_root |-> project_root,
         store_path |-> IF project_root # NoPath
                        THEN Join(project_root, ".ragged_memory")
                        ELSE NoPath]

has_local_store(fs, context) ==
    context.store_path # NoPath /\ PathExists(fs, context.store_path)

----------------------------------------------------------------------------
(* get_active_scope and the CLI callback main.                             *)

(* Python's None for an optional object argument. *)
None == <<>>

Called(r, calls) == [raise |-> r.raise, value |-> r.value, calls |-> calls]

(* A variant that loads its collaborators before it looks at the flags. *)
get_active_scope_LoadsFirst(fs, cwd, global_flag, local_flag, config, context) ==
    LET cfg == IF config = None THEN Config_load(fs, NoPath) ELSE Ok(config)
        ctx == IF context = None THEN ProjectContext(fs, cwd, NoPath) ELSE context
        calls == (IF config = None THEN <<"Config.load">> ELSE <<>>)
                 \o (IF context = None THEN <<"ProjectContext">> ELSE <<>>)
    IN  IF global_flag /\ local_flag THEN Called(Raise("ValueError"), calls)
        ELSE IF global_flag THEN Called(Ok(StorageScope_GLOBAL), calls)
        ELSE IF local_flag THEN Called(Ok(StorageScope_LOCAL), calls)
        ELSE IF cfg.raise # "none" THEN Called(cfg, calls)
        ELSE IF ctx.project_root # NoPath THEN Called(Ok(StorageScope_LOCAL), calls)
        ELSE Called(Ok(StorageScope_GLOBAL), calls)

(* A variant whose fallback is the configured default scope. *)
get_active_scope_ConfigDefault(fs, cwd, global_flag, local_flag, config, context) ==
    LET cfg == IF config = None THEN Config_load(fs, NoPath) ELSE Ok(config)
        ctx == IF context = None THEN ProjectContext(fs, cwd, NoPath) ELSE context
        loads == IF config = None THEN <<"Config.load">> ELSE <<>>
        detects == IF context = None THEN <<"ProjectContext">> ELSE <<>>
    IN  IF global_flag /\ local_flag THEN Called(Raise("ValueError"), <<>>)
        ELSE IF global_flag THEN Called(Ok(StorageScope_GLOBAL), <<>>)
        ELSE IF local_flag THEN Called(Ok(StorageScope_LOCAL), <<>>)
        ELSE IF cfg.raise # "none" THEN Called(cfg, loads)
        ELSE IF ctx.project_root # NoPath
             THEN Called(Ok(StorageScope_LOCAL), loads \o detects)
        ELSE Called(Ok(cfg.value.default_scope), loads \o detects)

(* get_active_scope(global_flag, local_flag, config, context), run in the
   working directory cwd on the filesystem fs. The result carries the
   collaborators it invoked, in order.                                     *)
get_active_scope(fs, cwd, global_flag, local_flag, config, context) ==
    LET cfg == IF config = None THEN Config_load(fs, NoPath) ELSE Ok(config)
        ctx == IF context = None THEN ProjectContext(fs, cwd, NoPath) ELSE context
        loads == IF config = None THEN <<"Config.load">> ELSE <<>>
        detects == IF context = None THEN <<"ProjectContext">> ELSE <<>>
    IN  IF global_flag /\ local_flag THEN Called(Raise("ValueError"), <<>>)
        ELSE IF global_flag THEN Called(Ok(StorageScope_GLOBAL), <<>>)
        ELSE IF local_flag THEN Called(Ok(StorageScope_LOCAL), <<>>)
        ELSE IF cfg.raise # "none" THEN Called(cfg, loads)
        ELSE IF ctx.project_root # NoPath
             THEN Called(Ok(StorageScope_LOCAL), loads \o detects)
        ELSE Called(Ok(StorageScope_GLOBAL), loads \o detects)

(* The callback main(ctx, version, global_scope, local_scope): it leaves
   ctx.obj as its value, or exits with status 1.                           *)
main(fs, cwd, global_scope, local_scope) ==
    IF global_scope /\ local_scope THEN Called(Raise("Exit(1)"), <<>>)
    ELSE LET r == get_active_scope(fs, cwd, global_scope, local_scope, None, None)
         IN  IF r.raise = "ValueError"
             THEN Called(Raise("Exit(1)"), <<"get_active_scope">> \o r.calls)
             ELSE Called(Ok([global_flag |-> global_scope,
                             local_flag |-> local_scope,
                             active_scope |-> r.value]),
                         <<"get_active_scope">> \o r.calls)

----------------------------------------------------------------------------
(* Specification of scope resolution and project detection: any placement
   of at most MaxMarkers project markers, with or without a user
   configuration file.                                                     *)

MaxMarkers == 2

MarkerNames == {".ragged_memory", ".git"}
MarkerPaths == {Join(d, n) : d \in Skeleton, n \in MarkerNames}

DefaultConfig == Config_load([dirs |-> Skeleton, files |-> <<>>, tables |-> <<>>], NoPath).value

(* Config values a caller may pass in. *)
ExplicitConfigs ==
    {[DefaultConfig EXCEPT !.default_scope = s] :
        s \in {StorageScope_LOCAL, StorageScope_GLOBAL}}

UserConfigFiles ==
    {[malformed |-> FALSE, toml |-> [scope |-> [default_scope |-> s]]] : s \in ScopeStrings}
    \cup {[malformed |-> TRUE, toml |-> <<>>]}

RelativeDirs == {<<".">>, <<".", "src">>}

InitResolve ==
    /\ \E ms \in SUBSET MarkerPaths :
        /\ Cardinality(ms) <= MaxMarkers
        /\ \/ /\ files = <<>>
              /\ dirs = Skeleton \cup ms
           \/ \E c \in UserConfigFiles :
                /\ files = (DefaultConfigPath :> c)
                /\ dirs = Skeleton \cup ms \cup {Parent(DefaultConfigPath)}
    /\ tables = <<>>
    /\ last = NoOp
    /\ appended = <<>>
    /\ indexed = {}
    /\ confirmed = FALSE
    /\ procs = <<>>

Detect ==
    \E cwd \in Skeleton, start_dir \in Skeleton \cup RelativeDirs \cup {NoPath} :
        /\ last = NoOp
        /\ Absolute(cwd, start_dir) \in Skeleton \cup {NoPath}
        /\ last' = [op |-> "ProjectContext",
                    args |-> [cwd |-> cwd, start_dir |-> start_dir],
                    result |-> Ok(ProjectContext(FS, cwd, start_dir)),
                    calls |-> <<>>]
        /\ UNCHANGED <<dirs, files, tables, appended, indexed, confirmed, procs>>

GetActiveScope ==
    \E cwd \in Skeleton, global_flag \in BOOLEAN, local_flag \in BOOLEAN,
       config \in ExplicitConfigs \cup {None},
       context \in {ProjectContext(FS, Root, d) : d \in Skeleton} \cup {None} :
        LET r == get_active_scope(FS, cwd, global_flag, local_flag, config, context) IN
        /\ last = NoOp
        /\ last' = [op |-> "get_active_scope",
                    args |-> [cwd |-> cwd, global_flag |-> global_flag,
                              local_flag |-> local_flag,
                              config |-> config, context |-> context],
                    result |-> [raise |-> r.raise, value |-> r.value],
                    calls |-> r.calls]
        /\ UNCHANGED <<dirs, files, tables, appended, indexed, confirmed, procs>>

Main ==
    \E cwd \in Skeleton, global_scope \in BOOLEAN, local_scope \in BOOLEAN :
        LET r == main(FS, cwd, global_scope, local_scope) IN
        /\ last = NoOp
        /\ last' = [op |-> "main",
                    args |-> [cwd |-> cwd, global_flag |-> global_scope,
                              local_flag |-> local_scope],
                    result |-> [raise |-> r.raise, value |-> r.value],
                    calls |-> r.calls]
        /\ UNCHANGED <<dirs, files, tables, appended, indexed, confirmed, procs>>

NextResolve == Detect \/ GetActiveScope \/ Main

SpecResolve == InitResolve /\ [][NextResolve]_vars

----------------------------------------------------------------------------
(* C1: for flags that do not conflict, get_active_scope returns the first
   match of: global flag -> GLOBAL; local flag -> LOCAL; a project root is
   present -> LOCAL; otherwise GLOBAL. The value is a function of the two
   flags and of the presence of a project root; config.default_scope never
   enters it. (With neither flag and no config passed in, the configuration
   is loaded from the user's file and a failing load is the outcome.)      *)

C1_ProjectPresent ==
    IF last.args.context # None
    THEN last.args.context.project_root # NoPath
    ELSE \E d \in Skeleton :
            /\ d # Root
            /\ Len(d) <= Len(last.args.cwd)
            /\ \A i \in 1..Len(d) : d[i] = last.args.cwd[i]
            /\ \E n \in MarkerNames : Join(d, n) \in dirs

C1_FirstMatch ==
    IF last.args.global_flag THEN StorageScope_GLOBAL
    ELSE IF last.args.local_flag THEN StorageScope_LOCAL
    ELSE IF C1_ProjectPresent THEN StorageScope_LOCAL
    ELSE StorageScope_GLOBAL

C1_LoadFails ==
    /\ ~last.args.global_flag /\ ~last.args.local_flag
    /\ last.args.config = None
    /\ Config_load(FS, NoPath).raise # "none"

C1_ResolveFirstMatch ==
    (last.op = "get_active_scope" /\ ~(last.args.global_flag /\ last.args.local_flag)) =>
        IF C1_LoadFails
        THEN last.result.raise = "ValueError"
        ELSE last.result.raise = "none" /\ last.result.value = C1_FirstMatch

(* No flag, a configuration whose default scope is LOCAL, no project: GLOBAL. *)
C1_Witness ==
    /\ last.op = "get_active_scope"
    /\ ~last.args.global_flag /\ ~last.args.local_flag
    /\ last.args.config # None
    /\ last.args.config.default_scope = StorageScope_LOCAL
    /\ last.args.context # None
    /\ last.args.context.project_root = NoPath
    /\ last.result.raise = "none"
    /\ last.result.value = StorageScope_GLOBAL

----------------------------------------------------------------------------
(* C2: with both flags set, get_active_scope raises the invalid-arguments
   error (ValueError) and the callback main exits with status 1, for every
   config and context; nothing else has run by then: no configuration was
   loaded, no project detection was made, and the filesystem is as before. *)

C2_Conflict(l) ==
    /\ l.op \in {"get_active_scope", "main"}
    /\ l.args.global_flag /\ l.args.local_flag

C2_ConflictingFlagsFailFirst ==
    /\ [](C2_Conflict(last) =>
            /\ last.result.raise = (IF last.op = "main" THEN "Exit(1)" ELSE "ValueError")
            /\ last.calls = <<>>)
    /\ [][C2_Conflict(last') => UNCHANGED <<dirs, files, tables>>]_vars

(* Both flags, a configuration file that would not load and a project in
   the working directory: the flags are rejected before either is read.    *)
C2_Witness ==
    /\ C2_Conflict(last)
    /\ last.op = "main"
    /\ last.result.raise = "Exit(1)"
    /\ DefaultConfigPath \in DOMAIN files
    /\ files[DefaultConfigPath].malformed
    /\ Join(last.args.cwd, ".git") \in dirs

----------------------------------------------------------------------------
(* C10: ProjectContext detection returns the nearest ancestor-or-self of
   the starting directory that contains a marker, the starting directory
   and the filesystem root included, and absent only when no
   ancestor-or-self contains one.                                          *)

AncestorsOrSelf(p) == {SubSeq(p, 1, k) : k \in 0..Len(p)}

HasMarker(d) == \E n \in MarkerNames : Join(d, n) \in dirs \/ Join(d, n) \in DOMAIN files

C10_Start ==
    Absolute(last.args.cwd,
             IF last.args.start_dir = NoPath THEN last.args.cwd ELSE last.args.start_dir)

C10_Marked == {d \in AncestorsOrSelf(C10_Start) : HasMarker(d)}

C10_DetectNearestMarkedAncestor ==
    last.op = "ProjectContext" =>
        LET root == last.result.value.project_root IN
        IF C10_Marked = {} THEN root = NoPath
        ELSE /\ root \in C10_Marked
             /\ \A d \in C10_Marked : Len(d) <= Len(root)

(* What the loop does: the filesystem root is never examined. *)
C10_DetectBelowRoot ==
    last.op = "ProjectContext" =>
        LET root == last.result.value.project_root
            marked == C10_Marked \ {Root}
        IN  IF marked = {} THEN root = NoPath
            ELSE /\ root \in marked
                 /\ \A d \in marked : Len(d) <= Len(root)

C10_Witness ==
    /\ last.op = "ProjectContext"
    /\ last.args.start_dir = <<".", "src">>
    /\ last.args.cwd = Proj
    /\ Join(Home, ".ragged_memory") \in dirs
    /\ Join(Proj, ".git") \in dirs
    /\ last.result.value.project_root = Proj

----------------------------------------------------------------------------
(* The text files a user may hand to the tool. They are not written by the
   tool, so they are the same in every state.                              *)

FileA == Join(Proj, "a.txt")
FileB == Join(Tmp, "b.txt")          \* the same bytes as FileA
FileC == Join(Proj, "c.txt")
FileD == Join(Src, "d.txt")
FileE == Join(Proj, "empty.txt")
FileN == Join(Tmp, "n.txt")          \* five characters, six bytes
FileBin == Join(Proj, "bin.dat")     \* not UTF-8
FileMissing == Join(Proj, "missing.txt")

MegaByte == 1048576

InputFiles ==
    (FileA :> [is_file |-> TRUE, utf8 |-> TRUE, readable |-> TRUE,
               content |-> "alpha beta"])
    @@ (FileB :> [is_file |-> TRUE, utf8 |-> TRUE, readable |-> TRUE,
                  content |-> "alpha beta"])
    @@ (FileC :> [is_file |-> TRUE, utf8 |-> TRUE, readable |-> TRUE,
                  content |-> "gamma"])
    @@ (FileD :> [is_file |-> TRUE, utf8 |-> TRUE, readable |-> TRUE,
                  content |-> "alpha beta gamma"])
    @@ (FileE :> [is_file |-> TRUE, utf8 |-> TRUE, readable |-> TRUE,
                  content |-> ""])
    @@ (FileN :> [is_file |-> TRUE, utf8 |-> TRUE, readable |-> TRUE,
                  content |-> "naïve"])
    @@ (FileBin :> [is_file |-> TRUE, utf8 |-> FALSE, readable |-> TRUE,
                    content |-> ""])
    @@ (Src :> [is_file |-> FALSE, utf8 |-> FALSE, readable |-> TRUE,
                content |-> ""])

(* The characters of the texts of this model, in runs of consecutive code
   points: U+0020 to U+005F, U+0061 to U+007E, U+00A1 to U+00AC and
   U+00AE to U+00FF; and the control characters \t, \n, \f and \r.        *)
AsciiLow ==
    " !\"#$%&'()*+,-./0123456789:;<=>?@ABCDEFGHIJKLMNOPQRSTUVWXYZ[\\]^_"

AsciiHigh == "abcdefghijklmnopqrstuvwxyz{|}~"

Latin1Low == "¡¢£¤¥¦§¨©ª«¬"

Latin1High ==
    "®¯°±²³´µ¶·¸¹º»¼½¾¿ÀÁÂÃÄÅÆÇÈÉÊËÌÍÎÏÐÑÒÓÔÕÖ×ØÙÚÛÜÝÞßàáâãäåæçèéêëìíîïðñòóôõö÷øùúûüýþÿ"

(* The position of the character ch in the string chars, 0 when it is not
   in it.                                                                  *)
IndexOf(ch, chars) ==
    IF \E i \in 1..Len(chars) : SubSeq(chars, i, i) = ch
    THEN CHOOSE i \in 1..Len(chars) : SubSeq(chars, i, i) = ch
    ELSE 0

(* ord(ch): the code point of a character of the model's texts. *)
ord(ch) ==
    CASE ch = "\t" -> 9
      [] ch = "\n" -> 10
      [] ch = "\f" -> 12
      [] ch = "\r" -> 13
      [] IndexOf(ch, AsciiLow) > 0 -> 31 + IndexOf(ch, AsciiLow)
      [] IndexOf(ch, AsciiHigh) > 0 -> 96 + IndexOf(ch, AsciiHigh)
      [] IndexOf(ch, Latin1Low) > 0 -> 160 + IndexOf(ch, Latin1Low)
      [] IndexOf(ch, Latin1High) > 0 -> 173 + IndexOf(ch, Latin1High)

(* The number of bytes str.encode("utf-8") gives the code point cp. *)
utf8_len(cp) ==
    IF cp < 128 THEN 1 ELSE IF cp < 2048 THEN 2 ELSE IF cp < 65536 THEN 3 ELSE 4

(* The number of bytes of the UTF-8 encoding of the first n characters of
   content.                                                                *)
RECURSIVE utf8_size(_, _)
utf8_size(content, n) ==
    IF n = 0 THEN 0
    ELSE utf8_size(content, n - 1) + utf8_len(ord(SubSeq(content, n, n)))

(* len(content.encode("utf-8")) *)
encoded_size(content) == utf8_size(content, Len(content))

(* hashlib.sha256(content.encode("utf-8")).hexdigest(), first 12 digits. *)
sha256_hexdigest(content) ==
    CASE content = "" -> "e3b0c44298fc"
      [] content = "alpha beta" -> "1a989ea86150"
      [] content = "gamma" -> "be9d587defa1"
      [] content = "naïve" -> "f86fd89de87a"
      [] content = "alpha beta gamma" -> "64989ccbf3ef"

Hashes == {sha256_hexdigest(InputFiles[f].content) : f \in DOMAIN InputFiles}

----------------------------------------------------------------------------
(* Indexing: FileChunker, EmbeddingGenerator, FileIndexer.                 *)

(* The external SemanticChunker: ordered segments with their start offsets. *)
SemanticChunker_chunk(text) ==
    CASE text = "" -> <<>>
      [] text = "gamma" -> <<[text |-> "gamma", start_index |-> 0]>>
      [] text = "naïve" -> <<[text |-> "naïve", start_index |-> 0]>>
      [] text = "alpha beta" -> <<[text |-> "alpha ", start_index |-> 0],
                                  [text |-> "beta", start_index |-> 6]>>
      [] text = "alpha beta gamma" -> <<[text |-> "alpha ", start_index |-> 0],
                                        [text |-> "beta ", start_index |-> 6],
                                        [text |-> "gamma", start_index |-> 11]>>

(* FileChunker.chunk: the Chunk model of every segment, numbered from 0. *)
FileChunker_chunk(text) ==
    LET cs == SemanticChunker_chunk(text) IN
    [i \in 1..Len(cs) |->
        [text |-> cs[i].text,
         start_index |-> cs[i].start_index,
         end_index |-> cs[i].start_index + Len(cs[i].text),
         chunk_index |-> i - 1]]

(* Chunk.size *)
Chunk_size(chunk) == Len(chunk.text)

(* The vector the external model gives a text. *)
Encode(text) == <<Len(text)>>

(* zip(chunks, embeddings) with a length check in front of it. *)
process_file_Checked(file_path, embeddings, clock) ==
    IF file_path \notin DOMAIN InputFiles THEN Raise("FileNotFoundError")
    ELSE IF ~InputFiles[file_path].is_file THEN Raise("IsADirectoryError")
    ELSE IF ~InputFiles[file_path].utf8 THEN Raise("UnicodeDecodeError")
    ELSE
    LET content == InputFiles[file_path].content
        file_hash == sha256_hexdigest(content)
        chunks == FileChunker_chunk(content)
    IN  IF Len(chunks) # Len(embeddings) THEN Raise("EmbeddingFailure")
        ELSE Ok([i \in 1..Len(chunks) |->
                    [text |-> chunks[i].text,
                     vector |-> embeddings[i],
                     file_path |-> file_path,
                     chunk_index |-> chunks[i].chunk_index,
                     chunk_size |-> Chunk_size(chunks[i]),
                     timestamp |-> clock[i],
                     file_hash |-> file_hash]])

(* FileIndexer.process_file(file_path). embeddings is what the embedder
   returned for the chunks; clock[i] is the reading of datetime.utcnow()
   made while entry i is built.                                            *)
process_file(file_path, embeddings, clock) ==
    IF file_path \notin DOMAIN InputFiles THEN Raise("FileNotFoundError")
    ELSE IF ~InputFiles[file_path].is_file THEN Raise("IsADirectoryError")
    ELSE IF ~InputFiles[file_path].utf8 THEN Raise("UnicodeDecodeError")
    ELSE
    LET content == InputFiles[file_path].content
        file_hash == sha256_hexdigest(content)
        chunks == FileChunker_chunk(content)
        n == IF Len(chunks) <= Len(embeddings) THEN Len(chunks) ELSE Len(embeddings)
    IN  Ok([i \in 1..n |->
              [text |-> chunks[i].text,
               vector |-> embeddings[i],
               file_path |-> file_path,
               chunk_index |-> chunks[i].chunk_index,
               chunk_size |-> Chunk_size(chunks[i]),
               timestamp |-> clock[i],
               file_hash |-> file_hash]])

(* EmbeddingGenerator.generate as the contract has it: one vector per chunk. *)
generate(chunks) == [i \in 1..Len(chunks) |-> Encode(chunks[i].text)]

----------------------------------------------------------------------------
(* Specification of FileIndexer.process_file alone: any input file, an
   embedder that returns up to MaxExtraVectors vectors too many or up to
   MaxMissingVectors too few, and a clock that reads 0..MaxClock and never runs
   backwards.                                                              *)

MaxExtraVectors == 1
MaxMissingVectors == 1
MaxClock == 3

ChunksOf(file_path) ==
    IF file_path \in DOMAIN InputFiles /\ InputFiles[file_path].is_file
       /\ InputFiles[file_path].utf8
    THEN FileChunker_chunk(InputFiles[file_path].content)
    ELSE <<>>

Max(a, b) == IF a >= b THEN a ELSE b

(* What an embedder may return for the chunks: k vectors, the first ones
   those of the chunks.                                                    *)
EmbedderOutputs(chunks) ==
    {[i \in 1..k |-> IF i <= Len(chunks) THEN Encode(chunks[i].text) ELSE Encode("")] :
        k \in Max(0, Len(chunks) - MaxMissingVectors)..(Len(chunks) + MaxExtraVectors)}

ClockReadings(n) ==
    {c \in [1..n -> 0..MaxClock] : \A i \in 1..n : i > 1 => c[i - 1] <= c[i]}

Min(a, b) == IF a <= b THEN a ELSE b

InitIndex ==
    /\ dirs = Skeleton
    /\ files = <<>>
    /\ tables = <<>>
    /\ last = NoOp
    /\ appended = <<>>
    /\ indexed = {}
    /\ confirmed = FALSE
    /\ procs = <<>>

ProcessFile ==
    \E file_path \in DOMAIN InputFiles \cup {FileMissing} :
    \E embeddings \in EmbedderOutputs(ChunksOf(file_path)) :
    \E clock \in ClockReadings(Min(Len(ChunksOf(file_path)), Len(embeddings))) :
        /\ last = NoOp
        /\ last' = [op |-> "process_file",
                    args |-> [file_path |-> file_path, embeddings |-> embeddings,
                              clock |-> clock],
                    result |-> process_file(file_path, embeddings, clock),
                    calls |-> <<>>]
        /\ UNCHANGED <<dirs, files, tables, appended, indexed, confirmed, procs>>

NextIndex == ProcessFile

SpecIndex == InitIndex /\ [][NextIndex]_vars

----------------------------------------------------------------------------
(* C7: whenever the embedder returns a vector sequence whose length differs
   from the number of segments, process_file fails (a fatal embedding
   failure) and returns no records: never a list cut to the shorter length. *)

C7_LengthMismatch ==
    /\ last.op = "process_file"
    /\ last.args.file_path \in DOMAIN InputFiles
    /\ InputFiles[last.args.file_path].is_file
    /\ InputFiles[last.args.file_path].utf8
    /\ Len(last.args.embeddings) # Len(ChunksOf(last.args.file_path))

C7_LengthMismatchIsFatal ==
    C7_LengthMismatch => last.result.raise # "none"

(* What the code does: zip stops at the shorter of the two sequences. *)
C7_ZipTruncates ==
    C7_LengthMismatch =>
        /\ last.result.raise = "none"
        /\ Len(last.result.value) =
             Min(Len(ChunksOf(last.args.file_path)), Len(last.args.embeddings))

(* C11: all records one process_file call returns carry the same
   timestamp, also when the clock advances while they are assembled.       *)
C11_OneTimestampPerRun ==
    (last.op = "process_file" /\ last.result.raise = "none") =>
        \A i, j \in DOMAIN last.result.value :
            last.result.value[i].timestamp = last.result.value[j].timestamp

(* What the code does: the clock is read once for each record. *)
C11_TimestampPerRecord ==
    (last.op = "process_file" /\ last.result.raise = "none") =>
        \A i \in DOMAIN last.result.value :
            last.result.value[i].timestamp = last.args.clock[i]

----------------------------------------------------------------------------
(* MemoryStore over the vector engine. The engine keeps, below a database
   directory, the rows of each table; the store uses the one table
   "memories". connect() is taken to read only; create_table writes the
   table below the database directory and so creates that directory.       *)

MemoryStore(scope, db_path) == [scope |-> scope, db_path |-> db_path, table_name |-> "memories"]

(* MemoryStore.initialize: mkdir(parents=True, exist_ok=True), then connect. *)
initialize(fs, store) ==
    [fs EXCEPT !.dirs = @ \cup {SubSeq(store.db_path, 1, k) : k \in 0..Len(store.db_path)}]

(* MemoryStore.exists *)
exists(fs, store) == PathExists(fs, store.db_path)

(* MemoryStore.get_path *)
get_path(store) == store.db_path

(* db.open_table(name): the handle, or the engine's not-found error. *)
open_table(fs, store) ==
    IF store.db_path \in DOMAIN fs.tables THEN Ok(store.db_path)
    ELSE Raise("FileNotFoundError")

(* db.create_table(name, data=chunks): refused when the table exists, and
   when there is no row to infer the schema from.                          *)
create_table(fs, store, chunks, fault) ==
    IF store.db_path \in DOMAIN fs.tables THEN [fs |-> fs, raise |-> "ValueError"]
    ELSE IF Len(chunks) = 0 THEN [fs |-> fs, raise |-> "ValueError"]
    ELSE IF fault # "none" THEN [fs |-> fs, raise |-> fault]
    ELSE [fs |-> [initialize(fs, store) EXCEPT
                    !.tables = (store.db_path :> chunks) @@ fs.tables],
          raise |-> "none"]

(* table.add(chunks) *)
table_add(fs, store, chunks, fault) ==
    IF fault # "none" THEN [fs |-> fs, raise |-> fault]
    ELSE [fs |-> [fs EXCEPT !.tables[store.db_path] = @ \o chunks], raise |-> "none"]

(* The outcomes of one write to the engine: accepted, or rejected with one
   of the errors add_chunks catches, or with another one.                  *)
Faults == {"none", "ValueError", "OSError"}

Caught(e) == e \in {"FileNotFoundError", "ValueError"}

(* A variant that replaces the table by the new rows. *)
add_chunks_Overwrite(fs, store, chunks, fault) ==
    IF fault # "none" \/ Len(chunks) = 0
    THEN [fs |-> fs, raise |-> IF fault # "none" THEN fault ELSE "ValueError",
          calls |-> <<"create_table">>]
    ELSE [fs |-> [initialize(fs, store) EXCEPT
                    !.tables = (store.db_path :> chunks) @@ fs.tables],
          raise |-> "none", calls |-> <<"create_table">>]

(* MemoryStore.add_chunks(chunks); fault is the engine's answer to the
   write. The result is the filesystem afterwards, the exception that
   leaves the method, and the engine calls made.                           *)
add_chunks(fs, store, chunks, fault) ==
    LET opened == open_table(fs, store) IN
    IF opened.raise = "none"
    THEN LET added == table_add(fs, store, chunks, fault) IN
         IF Caught(added.raise)
         THEN LET created == create_table(added.fs, store, chunks, "none") IN
              [fs |-> created.fs, raise |-> created.raise,
               calls |-> <<"open_table", "table.add", "create_table">>]
         ELSE [fs |-> added.fs, raise |-> added.raise,
               calls |-> <<"open_table", "table.add">>]
    ELSE LET created == create_table(fs, store, chunks, fault) IN
         [fs |-> created.fs, raise |-> created.raise,
          calls |-> <<"open_table", "create_table">>]

(* A variant that looks at the first row only. *)
check_file_exists_FirstRow(fs, store, file_hash) ==
    IF open_table(fs, store).raise # "none" THEN FALSE
    ELSE LET df == fs.tables[store.db_path] IN
         IF Len(df) = 0 THEN FALSE
         ELSE df[1].file_hash = file_hash

(* MemoryStore.check_file_exists(file_hash) *)
check_file_exists(fs, store, file_hash) ==
    IF open_table(fs, store).raise # "none" THEN FALSE
    ELSE LET df == fs.tables[store.db_path] IN
         IF Len(df) = 0 THEN FALSE
         ELSE \E i \in 1..Len(df) : df[i].file_hash = file_hash

----------------------------------------------------------------------------
(* Specification of MemoryStore: a global and a local store, initialized,
   written with the entries process_file makes of the input files, and
   queried, in any order, while at most MaxRows rows are stored.           *)

MaxRows == 4

GlobalStore == MemoryStore(StorageScope_GLOBAL, Join(Home, ".ragged_memory"))
LocalStore == MemoryStore(StorageScope_LOCAL, Join(Proj, ".ragged_memory"))
Stores == {GlobalStore, LocalStore}

(* The entries of one file, the embedder keeping its contract and the
   clock standing still.                                                   *)
EntriesOf(file_path) ==
    LET chunks == ChunksOf(file_path) IN
    process_file(file_path, generate(chunks), [i \in 1..Len(chunks) |-> 0]).value

Batches == {EntriesOf(f) : f \in {FileA, FileB, FileC, FileE}}

Rows(fs, db_path) == IF db_path \in DOMAIN fs.tables THEN fs.tables[db_path] ELSE <<>>

RECURSIVE SumRows(_, _)
SumRows(fs, ps) ==
    IF ps = {} THEN 0
    ELSE LET p == CHOOSE q \in ps : TRUE IN Len(fs.tables[p]) + SumRows(fs, ps \ {p})

TotalRows(fs) == SumRows(fs, DOMAIN fs.tables)

InitStore ==
    /\ dirs = Skeleton
    /\ files = <<>>
    /\ tables = <<>>
    /\ last = NoOp
    /\ appended = [p \in {st.db_path : st \in Stores} |-> <<>>]
    /\ indexed = {}
    /\ confirmed = FALSE
    /\ procs = <<>>

Initialize ==
    \E store \in Stores :
        LET fs == initialize(FS, store) IN
        /\ dirs' = fs.dirs
        /\ last' = [op |-> "initialize", args |-> [db_path |-> store.db_path],
                    result |-> Ok(<<>>), calls |-> <<>>]
        /\ UNCHANGED <<files, tables, appended, indexed, confirmed, procs>>

AddChunks ==
    \E store \in Stores, chunks \in Batches, fault \in Faults :
        LET r == add_chunks(FS, store, chunks, fault) IN
        /\ TotalRows(FS) + Len(chunks) <= MaxRows
        /\ dirs' = r.fs.dirs
        /\ tables' = r.fs.tables
        /\ appended' = IF r.raise = "none"
                       THEN [appended EXCEPT ![store.db_path] = @ \o chunks]
                       ELSE appended
        /\ last' = [op |-> "add_chunks",
                    args |-> [db_path |-> store.db_path, chunks |-> chunks],
                    result |-> [raise |-> r.raise, value |-> <<>>],
                    calls |-> r.calls]
        /\ UNCHANGED <<files, indexed, confirmed, procs>>

CheckFileExists ==
    \E store \in Stores, file_hash \in Hashes :
        /\ last' = [op |-> "check_file_exists",
                    args |-> [db_path |-> store.db_path, file_hash |-> file_hash],
                    result |-> Ok(check_file_exists(FS, store, file_hash)),
                    calls |-> <<>>]
        /\ UNCHANGED <<dirs, files, tables, appended, indexed, confirmed, procs>>

NextStore == Initialize \/ AddChunks \/ CheckFileExists

SpecStore == InitStore /\ [][NextStore]_vars

----------------------------------------------------------------------------
(* C5: for every store and every hash h, check_file_exists(h) is false on a
   store that was initialized and never written and on one whose table does
   not exist (and does not raise), and it is true in every state after a
   row with file_hash h was appended to that store; it is true only if a
   row appended to that store bears h.                                     *)

C5_Appended(db_path, file_hash) ==
    \E i \in DOMAIN appended[db_path] : appended[db_path][i].file_hash = file_hash

C5_HasFileHashIffAppended ==
    /\ \A st \in Stores, h \in Hashes :
          check_file_exists(FS, st, h) = C5_Appended(st.db_path, h)
    /\ last.op = "check_file_exists" =>
          last.result = Ok(C5_Appended(last.args.db_path, last.args.file_hash))

(* True for the hash of the second file appended to a store, while the
   other store, initialized and never written, answers false.              *)
C5_Witness ==
    /\ last.op = "check_file_exists"
    /\ last.result.value = TRUE
    /\ Len(appended[last.args.db_path]) > 1
    /\ appended[last.args.db_path][1].file_hash # last.args.file_hash
    /\ \E st \in Stores :
          /\ st.db_path # last.args.db_path
          /\ exists(FS, st)
          /\ appended[st.db_path] = <<>>
          /\ ~check_file_exists(FS, st, last.args.file_hash)

----------------------------------------------------------------------------
(* C6: the table is append-only and add_chunks is exact. If the table holds
   the rows C (none when it does not exist) and add_chunks(R) returns, a
   scan gives C plus R as a multiset, Len(R) rows more; and no step of any
   operation removes or changes a row of any store.                        *)

BagOf(rows) ==
    [r \in {rows[i] : i \in DOMAIN rows} |-> Cardinality({i \in DOMAIN rows : rows[i] = r})]

C6_Step ==
    /\ \A p \in DOMAIN appended :
          BagOf(Rows(FS, p)) \sqsubseteq BagOf(Rows(FS', p))
    /\ (last'.op = "add_chunks" /\ last'.result.raise = "none") =>
          LET p == last'.args.db_path
              R == last'.args.chunks
          IN  /\ BagOf(Rows(FS', p)) = BagOf(Rows(FS, p)) (+) BagOf(R)
              /\ Len(Rows(FS', p)) = Len(Rows(FS, p)) + Len(R)
              /\ \A q \in DOMAIN appended \ {p} : Rows(FS', q) = Rows(FS, q)

C6_AppendOnlyExact == [][C6_Step]_vars

(* An append of a non-empty batch to a table that already held rows. *)
C6_Witness ==
    /\ last.op = "add_chunks"
    /\ last.result.raise = "none"
    /\ Len(last.args.chunks) > 0
    /\ Len(Rows(FS, last.args.db_path)) > Len(last.args.chunks)
    /\ last.calls = <<"open_table", "table.add">>

(* C12: add_chunks creates the table only when it is absent and, when it
   is present, only appends: a write to an existing table that fails is
   reported as a failure and is not followed by an attempt to create the
   table.                                                                  *)
C12_Called(calls, name) == \E i \in DOMAIN calls : calls[i] = name

C12_Step ==
    last'.op = "add_chunks" =>
        IF last'.args.db_path \in DOMAIN tables
        THEN /\ C12_Called(last'.calls, "table.add")
             /\ ~C12_Called(last'.calls, "create_table")
        ELSE /\ C12_Called(last'.calls, "create_table")
             /\ ~C12_Called(last'.calls, "table.add")

C12_BranchByExistence == [][C12_Step]_vars

(* What the code does: the table is created after a write to the existing
   table exactly when that write raised an error add_chunks catches; the
   attempt is refused by the engine and the table keeps its rows.          *)
C12_CreateAfterCaughtFailure ==
    [][(last'.op = "add_chunks" /\ last'.args.db_path \in DOMAIN tables) =>
         \/ /\ last'.calls = <<"open_table", "table.add">>
            /\ last'.result.raise \in {"none", "OSError"}
         \/ /\ last'.calls = <<"open_table", "table.add", "create_table">>
            /\ last'.result.raise = "ValueError"
            /\ UNCHANGED tables]_vars

----------------------------------------------------------------------------
(* StorageManager.                                                         *)

(* Python's None for an optional scope. *)
NoScope == "None"

(* StorageManager(config, context), constructed in the directory cwd. *)
StorageManager(fs, cwd, config, context) ==
    LET cfg == IF config = None THEN Config_load(fs, NoPath) ELSE Ok(config) IN
    IF cfg.raise # "none" THEN Raise(cfg.raise)
    ELSE Ok([config |-> cfg.value,
             context |-> IF context = None THEN ProjectContext(fs, cwd, NoPath)
                         ELSE context])

(* The text _initialize_global_store writes, as the document tomllib reads. *)
default_config ==
    [malformed |-> FALSE,
     toml |-> [storage |-> [embedding_model |-> "sentence-transformers/all-MiniLM-L6-v2",
                            vector_dimensions |-> DefaultVectorDimensions],
               scope |-> [default_scope |-> "local", auto_init_local |-> TRUE],
               paths |-> [global_dir |-> "~/.ragged_memory",
                          local_dir |-> ".ragged_memory"]]]

(* StorageManager._initialize_global_store(store) *)
initialize_global_store(fs, store) ==
    LET made == initialize(fs, store)
        config_path == Join(get_path(store), "config.toml")
    IN  IF ~PathExists(made, config_path)
        THEN [fs |-> [made EXCEPT !.files = (config_path :> default_config) @@ @],
              calls |-> <<"initialize", "write_text">>]
        ELSE [fs |-> made, calls |-> <<"initialize">>]

(* A variant that provisions on every GLOBAL request and writes the
   default configuration each time.                                        *)
get_store_AlwaysProvisions(fs, manager, scope) ==
    LET sc == IF scope = NoScope THEN manager.config.default_scope ELSE scope IN
    IF sc = StorageScope_LOCAL
    THEN IF manager.context.project_root = NoPath
         THEN [fs |-> fs, raise |-> "ValueError", value |-> None, calls |-> <<>>]
         ELSE [fs |-> fs, raise |-> "none",
               value |-> MemoryStore(sc, manager.context.store_path), calls |-> <<>>]
    ELSE LET store == MemoryStore(sc, get_global_dir(manager.config))
             made == initialize(fs, store)
         IN  [fs |-> [made EXCEPT !.files =
                        (Join(get_path(store), "config.toml") :> default_config) @@ @],
              raise |-> "none", value |-> store,
              calls |-> <<"initialize", "write_text">>]

(* A variant that makes a local store under /tmp when no project is
   detected.                                                               *)
get_store_AutoInitLocal(fs, manager, scope) ==
    LET sc == IF scope = NoScope THEN manager.config.default_scope ELSE scope IN
    IF sc = StorageScope_LOCAL
    THEN IF manager.context.project_root = NoPath
         THEN LET store == MemoryStore(sc, Join(Tmp, ".ragged_memory")) IN
              [fs |-> initialize(fs, store), raise |-> "none", value |-> store,
               calls |-> <<"initialize">>]
         ELSE [fs |-> fs, raise |-> "none",
               value |-> MemoryStore(sc, manager.context.store_path), calls |-> <<>>]
    ELSE LET store == MemoryStore(sc, get_global_dir(manager.config)) IN
         IF ~exists(fs, store)
         THEN LET r == initialize_global_store(fs, store) IN
              [fs |-> r.fs, raise |-> "none", value |-> store, calls |-> r.calls]
         ELSE [fs |-> fs, raise |-> "none", value |-> store, calls |-> <<>>]

(* StorageManager.get_store(scope): the filesystem afterwards, the
   exception raised, the store returned, and the writes made.              *)
get_store(fs, manager, scope) ==
    LET sc == IF scope = NoScope THEN manager.config.default_scope ELSE scope IN
    IF sc = StorageScope_LOCAL
    THEN IF manager.context.project_root = NoPath
         THEN [fs |-> fs, raise |-> "ValueError", value |-> None, calls |-> <<>>]
         ELSE [fs |-> fs, raise |-> "none",
               value |-> MemoryStore(sc, manager.context.store_path), calls |-> <<>>]
    ELSE LET store == MemoryStore(sc, get_global_dir(manager.config)) IN
         IF ~exists(fs, store)
         THEN LET r == initialize_global_store(fs, store) IN
              [fs |-> r.fs, raise |-> "none", value |-> store, calls |-> r.calls]
         ELSE [fs |-> fs, raise |-> "none", value |-> store, calls |-> <<>>]

----------------------------------------------------------------------------
(* The commands init and add.                                              *)

(* init(ctx), run in the directory cwd. *)
init(fs, cwd, ctx_obj) ==
    IF ctx_obj.global_flag
    THEN [fs |-> fs, raise |-> "Exit(0)", outcome |-> "global flag not applicable"]
    ELSE LET store_dir == Join(cwd, ".ragged_memory") IN
         IF PathExists(fs, store_dir)
         THEN [fs |-> fs, raise |-> "Exit(0)", outcome |-> "already initialized"]
         ELSE [fs |-> initialize(fs, MemoryStore(StorageScope_LOCAL, store_dir)),
               raise |-> "none", outcome |-> "initialized"]

SizeLimitMB == 10

AddResult(fs, raise, outcome, scope, db_path, asked, stored) ==
    [fs |-> fs, raise |-> raise, outcome |-> outcome, scope |-> scope,
     db_path |-> db_path, asked |-> asked, stored |-> stored]

(* The scope the add command picks. *)
add_scope(manager, ctx_obj) ==
    IF ctx_obj.global_flag THEN StorageScope_GLOBAL
    ELSE IF ctx_obj.local_flag THEN StorageScope_LOCAL
    ELSE IF manager.context.project_root # NoPath THEN StorageScope_LOCAL
    ELSE manager.config.default_scope

(* A variant of the duplicate check that never finds the file. *)
add_is_duplicate_Never(fs, store, file_hash) == FALSE

(* The duplicate check of the add command. *)
add_is_duplicate(fs, store, file_hash) == check_file_exists(fs, store, file_hash)

(* add(ctx, file_path) from its start to the duplicate check, run in the
   directory cwd: the validation of the file, StorageManager(), the choice
   of the scope, get_store and check_file_exists. exited tells that add
   has ended there; otherwise asked tells whether "Re-index?" is asked.    *)
add_check(fs, cwd, ctx_obj, file_path) ==
    LET Exited(f, raise, outcome, scope) ==
            [exited |-> TRUE, store |-> None,
             result |-> AddResult(f, raise, outcome, scope, NoPath, FALSE, <<>>)]
    IN
    IF file_path \notin DOMAIN InputFiles
    THEN Exited(fs, "Exit(1)", "not found", "")
    ELSE IF ~InputFiles[file_path].is_file
    THEN Exited(fs, "Exit(1)", "not a file", "")
    ELSE IF ~InputFiles[file_path].utf8
    THEN Exited(fs, "Exit(1)", "not UTF-8", "")
    ELSE IF ~InputFiles[file_path].readable
    THEN Exited(fs, "Exit(1)", "permission denied", "")
    ELSE IF encoded_size(InputFiles[file_path].content) > SizeLimitMB * MegaByte
    THEN Exited(fs, "Exit(1)", "too large", "")
    ELSE
    LET sm == StorageManager(fs, cwd, None, None) IN
    IF sm.raise # "none"
    THEN Exited(fs, sm.raise, "configuration error", "")
    ELSE
    LET scope == add_scope(sm.value, ctx_obj)
        got == get_store(fs, sm.value, scope)
    IN
    IF got.raise # "none"
    THEN Exited(got.fs, "Exit(1)", "no project detected", scope)
    ELSE
    LET store == got.value
        file_hash == sha256_hexdigest(InputFiles[file_path].content)
        asked == add_is_duplicate(got.fs, store, file_hash)
    IN  [exited |-> FALSE, store |-> store,
         result |-> AddResult(got.fs, "none", IF asked THEN "asking" ELSE "new",
                              scope, store.db_path, asked, <<>>)]

(* What typer.confirm("Re-index? ...") gives: the answer yes or no, or,
   at the end of input or on an interrupt, the exception Abort.            *)
Yes == [raise |-> "none", value |-> TRUE]
No == [raise |-> "none", value |-> FALSE]
Aborted == [raise |-> "Abort", value |-> FALSE]
Answers == {Yes, No, Aborted}

(* add from the answer to "Re-index?" (or, when it is not asked, from the
   duplicate check) to its end, on the filesystem as it is by then.
   checked is what add_check gave; response is what typer.confirm gives;
   embeddings and clock are what the embedder and the clock give
   process_file; fault is the engine's answer to the write. add does not
   catch Abort: the invocation ends with "Aborted." and exit status 1.     *)
add_store(fs, checked, file_path, response, embeddings, clock, fault) ==
    LET store == checked.store
        scope == checked.result.scope
        asked == checked.result.asked
    IN
    IF asked /\ response.raise # "none"
    THEN AddResult(fs, response.raise, "aborted", scope, store.db_path, TRUE, <<>>)
    ELSE IF asked /\ ~response.value
    THEN AddResult(fs, "Exit(0)", "skipped", scope, store.db_path, TRUE, <<>>)
    ELSE
    LET entries == process_file(file_path, embeddings, clock) IN
    IF entries.raise # "none"
    THEN AddResult(fs, "Exit(1)", "processing error", scope, store.db_path, asked, <<>>)
    ELSE
    LET written == add_chunks(fs, store, entries.value, fault) IN
    IF written.raise # "none"
    THEN AddResult(written.fs, "Exit(1)", "storing error", scope, store.db_path, asked, <<>>)
    ELSE AddResult(written.fs, "none", "indexed", scope, store.db_path, asked, entries.value)

(* add(ctx, file_path) from start to end with nothing happening in
   between: the answer to "Re-index?" comes at once.                       *)
add(fs, cwd, ctx_obj, file_path, response, embeddings, clock, fault) ==
    LET checked == add_check(fs, cwd, ctx_obj, file_path) IN
    IF checked.exited THEN checked.result
    ELSE add_store(checked.result.fs, checked, file_path, response, embeddings, clock, fault)

----------------------------------------------------------------------------
(* Specification of the storage manager: calls of
   StorageManager().get_store and invocations of `ram init`, one after the
   other, from several working directories, starting with or without
   project markers and with or without a configuration file of the user.   *)

Cwds == {Home, Src, Tmp}

ProjectMarkers == {Join(Proj, ".git"), Join(Proj, ".ragged_memory")}

ManagerUserConfigs ==
    {[malformed |-> FALSE, toml |-> [scope |-> [default_scope |-> "global"]]],
     [malformed |-> FALSE, toml |-> [paths |-> [global_dir |-> "/tmp/ram_global"]]]}

InitManager ==
    /\ \E ms \in SUBSET ProjectMarkers :
        \/ /\ files = <<>>
           /\ dirs = Skeleton \cup ms
        \/ \E c \in ManagerUserConfigs :
             /\ files = (DefaultConfigPath :> c)
             /\ dirs = Skeleton \cup ms \cup {Parent(DefaultConfigPath)}
    /\ tables = <<>>
    /\ last = NoOp
    /\ appended = <<>>
    /\ indexed = {}
    /\ confirmed = FALSE
    /\ procs = <<>>

GetStore ==
    \E cwd \in Cwds, scope \in {NoScope, StorageScope_LOCAL, StorageScope_GLOBAL} :
    \E sm \in {StorageManager(FS, cwd, None, None)} :
        /\ sm.raise = "none"
        /\ \E r \in {get_store(FS, sm.value, scope)} :
            /\ dirs' = r.fs.dirs
            /\ files' = r.fs.files
            /\ last' = [op |-> "get_store",
                        args |-> [cwd |-> cwd, scope |-> scope,
                                  default_scope |-> sm.value.config.default_scope,
                                  project_root |-> sm.value.context.project_root,
                                  global_dir |-> get_global_dir(sm.value.config)],
                        result |-> [raise |-> r.raise, value |-> r.value],
                        calls |-> r.calls]
            /\ UNCHANGED <<tables, appended, indexed, confirmed, procs>>

CmdInit ==
    \E cwd \in Cwds, global_flag \in BOOLEAN, local_flag \in BOOLEAN :
    \E m \in {main(FS, cwd, global_flag, local_flag)} :
        LET args == [cwd |-> cwd, global_flag |-> global_flag, local_flag |-> local_flag] IN
        /\ IF m.raise # "none"
           THEN /\ UNCHANGED dirs
                /\ last' = [op |-> "init", args |-> args,
                            result |-> [raise |-> m.raise, value |-> "main"],
                            calls |-> <<>>]
           ELSE \E r \in {init(FS, cwd, m.value)} :
                /\ dirs' = r.fs.dirs
                /\ last' = [op |-> "init", args |-> args,
                            result |-> [raise |-> r.raise, value |-> r.outcome],
                            calls |-> <<>>]
        /\ UNCHANGED <<files, tables, appended, indexed, confirmed, procs>>

NextManager == GetStore \/ CmdInit

SpecManager == InitManager /\ [][NextManager]_vars

(* C3: get_store(LOCAL) on a manager whose context has no project root
   always raises the no-project-detected ValueError, returns no store and
   changes nothing on the filesystem: no directory is made (neither a
   local store nor the global store), no file is written, no table is
   touched.                                                                *)
C3_NoProject(l) ==
    /\ l.op = "get_store"
    /\ l.args.scope = StorageScope_LOCAL
    /\ l.args.project_root = NoPath

C3_Step ==
    C3_NoProject(last') =>
        /\ last'.result.raise = "ValueError"
        /\ last'.result.value = None
        /\ last'.calls = <<>>
        /\ UNCHANGED <<dirs, files, tables>>

C3_LocalWithoutProjectFails == [][C3_Step]_vars

(* get_store(LOCAL) was called outside every project, at a time when the
   global directory did not exist, and failed.                             *)
C3_Witness ==
    /\ C3_NoProject(last)
    /\ last.args.cwd = Tmp
    /\ last.result.raise = "ValueError"
    /\ last.args.global_dir \notin dirs
    /\ Join(Tmp, ".ragged_memory") \notin dirs

(* C4: global provisioning is idempotent. A get_store that resolves to
   GLOBAL while the global directory is absent makes the directory and
   writes exactly one file, the default configuration, into it; a
   get_store that resolves to GLOBAL while the directory exists writes
   nothing; no call of get_store changes or removes a configuration file
   that exists, and no operation removes a directory, so the directory
   once made stays and every later request finds it.                       *)
C4_Global(l) ==
    /\ l.op = "get_store"
    /\ \/ l.args.scope = StorageScope_GLOBAL
       \/ l.args.scope = NoScope /\ l.args.default_scope = StorageScope_GLOBAL

C4_Writes(calls) == Cardinality({i \in DOMAIN calls : calls[i] = "write_text"})

C4_Step ==
    /\ dirs \subseteq dirs'
    /\ last'.op = "get_store" =>
         \A p \in DOMAIN files : p \in DOMAIN files' /\ files'[p] = files[p]
    /\ C4_Global(last') =>
         LET g == last'.args.global_dir
             config_path == Join(g, "config.toml")
         IN  IF g \notin dirs
             THEN /\ g \in dirs'
                  /\ DOMAIN files' = DOMAIN files \cup {config_path}
                  /\ config_path \notin DOMAIN files
                  /\ files'[config_path] = default_config
                  /\ C4_Writes(last'.calls) = 1
             ELSE /\ UNCHANGED <<dirs, files>>
                  /\ C4_Writes(last'.calls) = 0

C4_GlobalProvisioningIdempotent == [][C4_Step]_vars

(* A later request: get_store resolved to GLOBAL, wrote nothing, and the
   global directory holds the default configuration an earlier request
   wrote.                                                                  *)
C4_Witness ==
    /\ C4_Global(last)
    /\ last.calls = <<>>
    /\ Join(last.args.global_dir, "config.toml") \in DOMAIN files
    /\ files[Join(last.args.global_dir, "config.toml")] = default_config

(* The paths get_store binds for LOCAL and for GLOBAL on a manager made in
   the directory cwd.                                                       *)
C14_BoundPath(fs, cwd, scope) ==
    get_store(fs, StorageManager(fs, cwd, None, None).value, scope).value.db_path

C14_ProjectDetected(fs, cwd) ==
    /\ StorageManager(fs, cwd, None, None).raise = "none"
    /\ StorageManager(fs, cwd, None, None).value.context.project_root # NoPath

(* C14: in every reachable state of the filesystem and for every working
   directory in which a project is detected, get_store(LOCAL) and
   get_store(GLOBAL) bind different paths.                                 *)
C14_LocalAndGlobalDiffer ==
    \A cwd \in Cwds :
        C14_ProjectDetected(FS, cwd) =>
            C14_BoundPath(FS, cwd, StorageScope_LOCAL) # C14_BoundPath(FS, cwd, StorageScope_GLOBAL)

(* What the code does: the two paths are one exactly when the detected
   project root is the directory that holds the global directory and the
   global directory bears the marker name.                                 *)
C14_SameAtParentOfGlobalDir ==
    \A cwd \in Cwds :
        C14_ProjectDetected(FS, cwd) =>
            LET sm == StorageManager(FS, cwd, None, None).value IN
            (C14_BoundPath(FS, cwd, StorageScope_LOCAL) = C14_BoundPath(FS, cwd, StorageScope_GLOBAL))
            <=> (/\ sm.context.project_root = Parent(get_global_dir(sm.config))
                 /\ get_global_dir(sm.config) = Join(sm.context.project_root, ".ragged_memory"))

(* The scope a caller in the directory cwd resolves with no flag given. *)
C15_Resolved(fs, cwd) == get_active_scope(fs, cwd, FALSE, FALSE, None, None).value

(* A step in which a caller that resolved GLOBAL with no flag asked for
   the store of that scope and get_store provisioned the global store.     *)
C15_Provisioning ==
    /\ last'.op = "get_store"
    /\ last'.args.scope = StorageScope_GLOBAL
    /\ C15_Resolved(FS, last'.args.cwd) = StorageScope_GLOBAL
    /\ C12_Called(last'.calls, "initialize")

(* C15: when an invocation with no flag resolves GLOBAL and get_store
   provisions the global store, resolution from the same directory with no
   flag is GLOBAL afterwards as well, and project detection answers from
   every directory as it did before: the directory provisioning made is
   not taken for a project marker.                                         *)
C15_Step ==
    C15_Provisioning =>
        /\ C15_Resolved(FS', last'.args.cwd) = StorageScope_GLOBAL
        /\ \A cwd \in Cwds :
             ProjectContext(FS', cwd, NoPath) = ProjectContext(FS, cwd, NoPath)

C15_ResolutionStableUnderProvisioning == [][C15_Step]_vars

(* What the code does: provisioning leaves resolution as it was exactly
   when it made a directory that is not named as the local marker is.      *)
C15_StableUnlessMarkerName ==
    [][C15_Provisioning =>
         ((C15_Resolved(FS', last'.args.cwd) = StorageScope_GLOBAL)
          <=> (last'.args.global_dir[Len(last'.args.global_dir)] # ".ragged_memory"
               \/ \A k \in 0..Len(last'.args.cwd) :
                    SubSeq(last'.args.cwd, 1, k) # Parent(last'.args.global_dir)))]_vars

----------------------------------------------------------------------------
(* Specification of the tool: invocations of `ram add` from inside and
   outside the project directory, with every choice of the scope flags,
   starting with or without project markers and without a configuration
   file of the user. An invocation that asks "Re-index?" waits for the
   answer while other invocations run; at most MaxWaiting invocations
   wait and at most MaxStored rows are stored. In this specification the
   embedder keeps its contract and the clock stands still while a file is
   processed. last records the file and the answer given, and what the
   invocation reported.                                                    *)

MaxStored == 2
MaxWaiting == 1

AddCwds == {Src, Tmp}

AddFiles == {FileA, FileB, FileC, FileE}

Init ==
    /\ \E ms \in SUBSET ProjectMarkers :
         dirs = Skeleton \cup ms
    /\ files = <<>>
    /\ tables = <<>>
    /\ last = NoOp
    /\ appended = <<>>
    /\ indexed = {}
    /\ confirmed = FALSE
    /\ procs = EmptyBag

FileHashOf(file_path) ==
    IF file_path \in DOMAIN InputFiles
    THEN sha256_hexdigest(InputFiles[file_path].content)
    ELSE ""

AddValue(r, file_path) ==
    [outcome |-> r.outcome, scope |-> r.scope, db_path |-> r.db_path,
     asked |-> r.asked, stored |-> Len(r.stored), file_hash |-> FileHashOf(file_path)]

(* An invocation of `ram add` that waits in typer.confirm: the locals it
   will go on with.                                                        *)
Waiting(file_path, store) == [file_path |-> file_path, store |-> store]

(* What add_check had given the waiting invocation w. *)
CheckedOf(w) ==
    [exited |-> FALSE, store |-> w.store,
     result |-> [scope |-> w.store.scope, asked |-> TRUE]]

(* `ram add` from its start: to its end when "Re-index?" is not asked,
   with an engine fault drawn when the write is reached; to the prompt
   when it is asked, where the invocation waits for the answer while
   other invocations run. At most MaxWaiting invocations wait.             *)
CmdAdd ==
    \E cwd \in AddCwds, global_flag \in BOOLEAN, local_flag \in BOOLEAN :
    \E m \in {main(FS, cwd, global_flag, local_flag)} :
    \E file_path \in AddFiles :
        LET chunks == ChunksOf(file_path)
            Last(raise, r) ==
                [op |-> "add",
                 args |-> [file_path |-> file_path, response |-> No],
                 result |-> [raise |-> raise, value |-> AddValue(r, file_path)],
                 calls |-> <<>>]
        IN  IF m.raise # "none"
            THEN /\ last' = Last(m.raise, AddResult(FS, m.raise, "main", "", NoPath,
                                                    FALSE, <<>>))
                 /\ UNCHANGED <<dirs, files, tables, appended, indexed, confirmed, procs>>
            ELSE \E checked \in {add_check(FS, cwd, m.value, file_path)} :
                 IF checked.exited \/ checked.result.asked
                 THEN /\ checked.result.asked => BagCardinality(procs) < MaxWaiting
                      /\ dirs' = checked.result.fs.dirs
                      /\ files' = checked.result.fs.files
                      /\ procs' = IF checked.result.asked
                                  THEN procs (+) SetToBag({Waiting(file_path, checked.store)})
                                  ELSE procs
                      /\ last' = Last(checked.result.raise, checked.result)
                      /\ UNCHANGED <<tables, appended, indexed, confirmed>>
                 ELSE \E quiet \in {add_store(checked.result.fs, checked, file_path, No,
                                              generate(chunks),
                                              [i \in 1..Len(chunks) |-> 0], "none")} :
                      \E fault \in IF quiet.outcome = "indexed" THEN Faults ELSE {"none"} :
                      \E r \in {IF fault = "none" THEN quiet
                                ELSE add_store(checked.result.fs, checked, file_path, No,
                                               generate(chunks),
                                               [i \in 1..Len(chunks) |-> 0], fault)} :
                      /\ TotalRows(r.fs) <= MaxStored
                      /\ dirs' = r.fs.dirs
                      /\ files' = r.fs.files
                      /\ tables' = r.fs.tables
                      /\ indexed' = IF r.outcome = "indexed"
                                    THEN indexed \cup {<<r.db_path, FileHashOf(file_path),
                                                      Len(r.stored)>>}
                                    ELSE indexed
                      /\ last' = Last(r.raise, r)
                      /\ UNCHANGED <<appended, confirmed, procs>>

(* The answer to "Re-index?" of a waiting invocation, and the rest of add:
   after no, "Skipped indexing" and exit 0; after yes, process_file and
   add_chunks on the store as it is by then; at the end of input, Abort
   and exit 1.                                                             *)
CmdAddAnswer ==
    \E w \in BagToSet(procs), response \in Answers :
    \E fault \in IF response = Yes THEN Faults ELSE {"none"} :
        LET chunks == ChunksOf(w.file_path) IN
        \E r \in {add_store(FS, CheckedOf(w), w.file_path, response, generate(chunks),
                            [i \in 1..Len(chunks) |-> 0], fault)} :
        /\ TotalRows(r.fs) <= MaxStored
        /\ dirs' = r.fs.dirs
        /\ files' = r.fs.files
        /\ tables' = r.fs.tables
        /\ procs' = procs (-) SetToBag({w})
        /\ indexed' = IF r.outcome = "indexed"
                      THEN indexed \cup {<<r.db_path, FileHashOf(w.file_path),
                                        Len(r.stored)>>}
                      ELSE indexed
        /\ confirmed' = (confirmed \/ response = Yes)
        /\ last' = [op |-> "add",
                    args |-> [file_path |-> w.file_path, response |-> response],
                    result |-> [raise |-> r.raise, value |-> AddValue(r, w.file_path)],
                    calls |-> <<>>]
        /\ UNCHANGED appended

Next == CmdAdd \/ CmdAddAnswer

Spec == Init /\ [][Next]_vars

(* The rows of a store come from at most one ingestion run per content
   hash: no two rows bear the same hash and the same chunk index.          *)
C8_OneRunPerHash ==
    \A p \in DOMAIN tables : \A i, j \in DOMAIN tables[p] :
        (/\ tables[p][i].file_hash = tables[p][j].file_hash
         /\ tables[p][i].chunk_index = tables[p][j].chunk_index) => i = j

(* The invocation recorded in l got as far as a store and found it to
   hold the file's hash: it waits at "Re-index?", or it was answered no,
   "Skipped indexing", exit 0, or its prompt met the end of input,
   "Aborted.", exit 1.                                                     *)
C8_Detected(l) ==
    /\ l.result.value.asked
    /\ \/ l.result.value.outcome = "asking" /\ l.result.raise = "none"
       \/ l.result.value.outcome = "skipped" /\ l.result.raise = "Exit(0)"
       \/ l.result.value.outcome = "aborted" /\ l.result.raise = "Abort"

(* C8 as stated: while the user has never confirmed re-indexing, an add of
   content with hash h to a store on which an add of hash h has completed
   successfully is detected as already indexed and appends nothing, and no
   store holds rows of two ingestion runs of one hash.                     *)
C8_SequentialDeduplication ==
    /\ [](~confirmed => C8_OneRunPerHash)
    /\ [][(/\ last'.op = "add"
           /\ ~confirmed'
           /\ \E n \in 0..MaxStored :
                <<last'.result.value.db_path, last'.result.value.file_hash, n>> \in indexed)
          => (C8_Detected(last') /\ UNCHANGED tables)]_vars

(* C8 as amended: the same, for a hash of which a completed add has stored
   at least one record.                                                    *)
C8_SequentialDeduplicationOfStoredHashes ==
    /\ [](~confirmed => C8_OneRunPerHash)
    /\ [][(/\ last'.op = "add"
           /\ ~confirmed'
           /\ \E n \in 1..MaxStored :
                <<last'.result.value.db_path, last'.result.value.file_hash, n>> \in indexed)
          => (C8_Detected(last') /\ UNCHANGED tables)]_vars

(* Without any confirmation, a.txt was indexed into a store and the add of
   b.txt, which has the same content, to that store was then detected,
   answered no and skipped; no invocation is left waiting.                 *)
C8_Witness ==
    /\ ~confirmed
    /\ procs = EmptyBag
    /\ last.op = "add"
    /\ last.result.value.outcome = "skipped"
    /\ last.args.file_path = FileB
    /\ C8_Detected(last)
    /\ \E n \in 1..MaxStored :
         <<last.result.value.db_path, last.result.value.file_hash, n>> \in indexed
    /\ \A i \in DOMAIN tables[last.result.value.db_path] :
         tables[last.result.value.db_path][i].file_path = FileA

----------------------------------------------------------------------------
(* Specification of one invocation `ram [--global|--local] add FILE`: the
   callback main, then the command add, from any directory, with any
   placement of at most MaxMarkers project markers and with or without a
   configuration file of the user. last records what main left in
   ctx.obj and what add then did.                                          *)

RunFiles == {FileA, FileE, FileN, FileMissing}

(* What get_store did in the run of add that gave r: the calls it made,
   and whether the store it returned existed when add went on to the
   duplicate check.                                                        *)
GotStore(fs, sm, ctx_obj, r) ==
    IF sm.raise # "none" \/ r.scope = ""
    THEN [called |-> FALSE, calls |-> <<>>, exists |-> FALSE]
    ELSE LET got == get_store(fs, sm.value, add_scope(sm.value, ctx_obj)) IN
         [called |-> TRUE, calls |-> got.calls,
          exists |-> got.raise = "none" /\ exists(got.fs, got.value)]

RamAdd ==
    \E cwd \in Skeleton, global_flag \in BOOLEAN, local_flag \in BOOLEAN :
    \E m \in {main(FS, cwd, global_flag, local_flag)} :
    \E file_path \in RunFiles :
        LET chunks == ChunksOf(file_path)
            args == [cwd |-> cwd, global_flag |-> global_flag,
                     local_flag |-> local_flag, file_path |-> file_path]
        IN  /\ last = NoOp
            /\ IF m.raise # "none"
               THEN /\ last' = [op |-> "ram add", args |-> args,
                                result |-> [raise |-> m.raise, value |-> <<>>],
                                calls |-> <<"main">>]
                    /\ UNCHANGED <<dirs, files, tables>>
               ELSE \E r \in {add(FS, cwd, m.value, file_path, No, generate(chunks),
                                  [i \in 1..Len(chunks) |-> 0], "none")} :
                    \E sm \in {StorageManager(FS, cwd, None, None)} :
                    /\ dirs' = r.fs.dirs
                    /\ files' = r.fs.files
                    /\ tables' = r.fs.tables
                    /\ last' = [op |-> "ram add", args |-> args,
                                result |-> [raise |-> r.raise,
                                            value |-> [ctx_obj |-> m.value,
                                                       manager |-> sm,
                                                       got |-> GotStore(FS, sm, m.value, r),
                                                       add |-> AddValue(r, file_path)]],
                                calls |-> <<"main", "add">>]
            /\ UNCHANGED <<appended, indexed, confirmed, procs>>

NextRun == RamAdd

SpecRun == InitResolve /\ [][NextRun]_vars

(* The invocation recorded in l came as far as choosing a scope. *)
RunChoseScope(l) ==
    /\ l.op = "ram add"
    /\ l.calls = <<"main", "add">>
    /\ l.result.value.add.scope # ""

(* C13: for every non-conflicting flag combination, every default_scope
   and every project context, the scope add passes to get_store is the
   scope get_active_scope returned to main for the same invocation; with
   no flag and no project that is GLOBAL.                                  *)
C13_AddUsesResolvedScope ==
    RunChoseScope(last) =>
        last.result.value.add.scope = last.result.value.ctx_obj.active_scope

(* What the code does: add chooses as get_active_scope does except with no
   flag and no project, where it takes config.default_scope.               *)
C13_AddFallsBackToDefaultScope ==
    RunChoseScope(last) =>
        LET v == last.result.value
            fallback == /\ ~last.args.global_flag
                        /\ ~last.args.local_flag
                        /\ v.manager.value.context.project_root = NoPath
        IN  /\ fallback => /\ v.ctx_obj.active_scope = StorageScope_GLOBAL
                           /\ v.add.scope = v.manager.value.config.default_scope
            /\ ~fallback => v.add.scope = v.ctx_obj.active_scope

(* C17: get_store(LOCAL) makes no directory, and in every run of add that
   appends, the store that receives the rows exists when the duplicate
   check is made, also in a project known by its version-control marker
   only, where init never ran.                                             *)
C17_StoreExistsBeforeAppend ==
    RunChoseScope(last) =>
        LET v == last.result.value IN
        /\ v.add.scope = StorageScope_LOCAL => v.got.calls = <<>>
        /\ v.add.outcome = "indexed" => v.got.exists

(* What the code does: get_store(LOCAL) makes nothing, and the store of a
   run that appends exists beforehand except for a LOCAL store in a
   project detected by its .git marker alone, which the engine makes when
   it creates the table.                                                   *)
C17_EngineMakesUninitializedLocalStore ==
    RunChoseScope(last) =>
        LET v == last.result.value
            root == v.manager.value.context.project_root
        IN  /\ v.add.scope = StorageScope_LOCAL => v.got.calls = <<>>
            /\ v.add.outcome = "indexed" =>
                 /\ v.add.db_path \in dirs
                 /\ ~v.got.exists =>
                      /\ v.add.scope = StorageScope_LOCAL
                      /\ Join(root, ".git") \in dirs
                      /\ v.add.db_path = Join(root, ".ragged_memory")

----------------------------------------------------------------------------
(* Specification of two `ram add` processes running at the same time in
   the source directory of an initialized project, each with --global or
   --local, neither confirming re-indexing. Nothing in the code locks the
   store, so the processes interleave between their engine calls: the
   duplicate check, the open_table of add_chunks, and the write.           *)

RaceProcs == {1, 2}

RaceFiles == {FileA, FileB, FileC, FileE}

RaceCwd == Src

Idle ==
    [pc |-> "idle", file_path |-> NoPath, file_hash |-> "", db_path |-> NoPath,
     asked |-> FALSE, opened |-> FALSE, entries |-> <<>>]

InitRace ==
    /\ dirs = Skeleton \cup {Join(Proj, ".ragged_memory")}
    /\ files = <<>>
    /\ \/ tables = <<>>
       \/ tables = (Join(Proj, ".ragged_memory") :> EntriesOf(FileC))
    /\ last = NoOp
    /\ appended = <<>>
    /\ indexed = {}
    /\ confirmed = FALSE
    /\ procs = [p \in RaceProcs |-> Idle]

RaceStep(p, step) ==
    [op |-> "add", args |-> [proc |-> p, step |-> step], result |-> <<>>, calls |-> <<>>]

(* add up to the duplicate check: validation, StorageManager(), the scope,
   get_store, check_file_exists; when the hash is found the invocation
   waits at "Re-index?".                                                   *)
AddCheck(p) ==
    \E file_path \in RaceFiles, global_flag \in BOOLEAN :
    \E m \in {main(FS, RaceCwd, global_flag, ~global_flag)} :
    \E sm \in {StorageManager(FS, RaceCwd, None, None)} :
        /\ procs[p].pc = "idle"
        /\ m.raise = "none" /\ sm.raise = "none"
        /\ \E got \in {get_store(FS, sm.value, add_scope(sm.value, m.value))} :
            LET file_hash == sha256_hexdigest(InputFiles[file_path].content)
                asked == got.raise = "none"
                         /\ add_is_duplicate(got.fs, got.value, file_hash)
            IN  /\ dirs' = got.fs.dirs
                /\ files' = got.fs.files
                /\ procs' = [procs EXCEPT ![p] =
                               [pc |-> IF got.raise # "none" THEN "failed"
                                       ELSE IF asked THEN "asking" ELSE "checked",
                                file_path |-> file_path,
                                file_hash |-> file_hash,
                                db_path |-> IF got.raise = "none" THEN got.value.db_path
                                            ELSE NoPath,
                                asked |-> asked, opened |-> FALSE, entries |-> <<>>]]
        /\ last' = RaceStep(p, "check")
        /\ UNCHANGED <<tables, appended, indexed, confirmed>>

(* "Re-index?" is answered no: "Skipped indexing", exit 0; or the prompt
   meets the end of input: Abort, exit 1. Neither user confirms.           *)
AddDecline(p) ==
    \E response \in Answers \ {Yes} :
    /\ procs[p].pc = "asking"
    /\ procs' = [procs EXCEPT ![p].pc = IF response.raise = "none" THEN "skipped"
                                        ELSE "aborted"]
    /\ last' = RaceStep(p, "decline")
    /\ UNCHANGED <<dirs, files, tables, appended, indexed, confirmed>>

(* process_file, then add_chunks up to db.open_table. *)
AddOpen(p) ==
    LET me == procs[p]
        chunks == ChunksOf(me.file_path)
        entries == process_file(me.file_path, generate(chunks),
                                [i \in 1..Len(chunks) |-> 0])
        opened == open_table(FS, MemoryStore("", me.db_path))
    IN  /\ me.pc = "checked"
        /\ procs' = [procs EXCEPT ![p] =
                       [me EXCEPT !.pc = IF entries.raise # "none" THEN "failed"
                                         ELSE IF opened.raise # "none"
                                                 /\ ~Caught(opened.raise)
                                         THEN "failed" ELSE "opened",
                                  !.opened = (opened.raise = "none"),
                                  !.entries = IF entries.raise = "none"
                                              THEN entries.value ELSE <<>>]]
        /\ last' = RaceStep(p, "open_table")
        /\ UNCHANGED <<dirs, files, tables, appended, indexed, confirmed>>

(* The write of add_chunks: table.add on the opened table, or create_table
   when open_table found none.                                             *)
AddWrite(p) ==
    LET me == procs[p]
        store == MemoryStore("", me.db_path)
        written == IF me.opened THEN table_add(FS, store, me.entries, "none")
                   ELSE create_table(FS, store, me.entries, "none")
    IN  /\ me.pc = "opened"
        /\ dirs' = written.fs.dirs
        /\ tables' = written.fs.tables
        /\ procs' = [procs EXCEPT ![p] =
                       [me EXCEPT !.pc = IF written.raise = "none" THEN "done"
                                         ELSE "failed"]]
        /\ last' = RaceStep(p, "write")
        /\ UNCHANGED <<files, appended, indexed, confirmed>>

NextRace ==
    \E p \in RaceProcs : AddCheck(p) \/ AddDecline(p) \/ AddOpen(p) \/ AddWrite(p)

SpecRace == InitRace /\ [][NextRace]_vars

(* The number of ingestion runs of the hash h the store at db_path holds:
   every run of a file leaves one row for each chunk index.                *)
C16_Runs(db_path, h) ==
    IF db_path \notin DOMAIN tables THEN 0
    ELSE Cardinality({i \in DOMAIN tables[db_path] :
                        /\ tables[db_path][i].file_hash = h
                        /\ tables[db_path][i].chunk_index = 0})

(* C16 as stated: however the steps of the two invocations interleave,
   a store holds the records of at most one ingestion run of a hash.       *)
C16_AtMostOneRunPerHash ==
    \A db_path \in DOMAIN tables, h \in Hashes : C16_Runs(db_path, h) <= 1

(* Both invocations ran their duplicate check on the store at db_path for
   the hash h before either had appended, and both then appended.          *)
C16_BothCheckedFirst(db_path, h) ==
    \A p \in RaceProcs :
        /\ procs[p].pc = "done"
        /\ procs[p].db_path = db_path
        /\ procs[p].file_hash = h
        /\ ~procs[p].asked

(* The invocation p appended at least one record of the hash h to the
   store at db_path.                                                       *)
C16_Appended(p, db_path, h) ==
    /\ procs[p].pc = "done"
    /\ procs[p].db_path = db_path
    /\ procs[p].file_hash = h
    /\ Len(procs[p].entries) > 0

(* C16 as amended: a store holds the records of two ingestion runs of a
   hash only if both duplicate checks came before both appends, and it
   does hold two when both invocations then append records; an invocation
   whose write is refused appends nothing; a duplicate check that comes
   after the other invocation's append of at least one record of the same
   hash to the same store finds it, and that invocation asks "Re-index?",
   is not answered yes and appends nothing.                                *)
C16_AtMostOneRunUnlessBothCheckedFirst ==
    /\ [](\A db_path \in DOMAIN tables, h \in Hashes :
            C16_Runs(db_path, h) <= 1 \/ C16_BothCheckedFirst(db_path, h))
    /\ [](\A p, q \in RaceProcs :
            (/\ p # q
             /\ C16_Appended(p, procs[p].db_path, procs[p].file_hash)
             /\ C16_Appended(q, procs[p].db_path, procs[p].file_hash)
             /\ ~procs[p].asked /\ ~procs[q].asked)
            => C16_Runs(procs[p].db_path, procs[p].file_hash) = 2)
    /\ [][\A p, q \in RaceProcs :
            (/\ procs[p].pc = "idle" /\ procs'[p].pc # "idle"
             /\ C16_Appended(q, procs'[p].db_path, procs'[p].file_hash))
            => (procs'[p].pc = "asking" /\ procs'[p].asked)]_vars
    /\ [][\A p \in RaceProcs :
            procs[p].pc = "asking" => (procs'[p].pc \in {"asking", "skipped", "aborted"}
                                       /\ (procs'[p].pc # procs[p].pc
                                           => UNCHANGED tables))]_vars
    /\ [][\A p \in RaceProcs :
            (procs[p].pc # "failed" /\ procs'[p].pc = "failed") => UNCHANGED tables]_vars

(* One invocation appended a.txt; the other, adding b.txt of the same
   content to the same store, checked afterwards and was skipped.          *)
C16_Witness ==
    \E p, q \in RaceProcs :
        /\ procs[p].pc = "done" /\ procs[p].file_path = FileA
        /\ procs[q].pc = "skipped" /\ procs[q].file_path = FileB
        /\ procs[q].db_path = procs[p].db_path
        /\ C16_Runs(procs[p].db_path, procs[p].file_hash) = 1

====
